---- MODULE Spec2Model ----
(***************************************************************************)
(* A model of streamlit_app.py: the truck dashboard.                       *)
(*                                                                         *)
(* Three entry points are exercised: the script's main() (one render cycle *)
(* per run, its inputs being the files on disk, the API key and the widget *)
(* values), and the two module-level functions create_traffic_map and      *)
(* calculate_distance called directly with arbitrary arguments.            *)
(*                                                                         *)
(* Numbers: the class counts are Python ints.  The quantiles, the fuel and *)
(* the hydrogen estimates are Python floats; they are modelled as exact    *)
(* rationals <<numerator, denominator>> in lowest terms.  For fewer than   *)
(* 101 sites the comparisons count > threshold come out the same in exact  *)
(* and in floating arithmetic: the interpolated threshold lies strictly    *)
(* between two adjacent order statistics (or equals one of them when they  *)
(* are equal), at a distance of at least 1% of their difference.           *)
(***************************************************************************)
EXTENDS Integers, Sequences, FiniteSets, TLC

\* ------------------------------------------------------------------------
\* Bounds of the model
\* ------------------------------------------------------------------------

\* The longest list of site records a site_statistics.json holds.
MaxSites == 3

\* The most rows a hydrogen_refuelling_stations.csv holds.
MaxStations == 1

\* The most runs (of the script, or calls of create_traffic_map) in one
\* session.
MaxRuns == 3

\* ------------------------------------------------------------------------
\* Python values
\* ------------------------------------------------------------------------

None == "None"

Abs(n) == IF n < 0 THEN -n ELSE n

RECURSIVE GCD(_, _)
GCD(a, b) == IF b = 0 THEN a ELSE GCD(b, a % b)

\* A float, held as the exact rational n/d in lowest terms, d > 0.
Rat(n, d) ==
    LET g == GCD(Abs(n), Abs(d))
        s == IF d < 0 THEN -1 ELSE 1
    IN  <<(s * n) \div g, (s * d) \div g>>

R(n) == <<n, 1>>

RAdd(x, y) == Rat(x[1] * y[2] + y[1] * x[2], x[2] * y[2])

RSub(x, y) == Rat(x[1] * y[2] - y[1] * x[2], x[2] * y[2])

\* The product, cross-reduced before multiplying so that the intermediate
\* values stay small.
RMul(x, y) ==
    LET a == Rat(x[1], y[2])
        b == Rat(y[1], x[2])
    IN  Rat(a[1] * b[1], a[2] * b[2])

\* x / y for y # 0 (the callers test y = 0 first: ZeroDivisionError).
RDiv(x, y) == RMul(x, Rat(y[2], y[1]))

RLess(x, y) == x[1] * y[2] < y[1] * x[2]

RFloor(x) == x[1] \div x[2]

RECURSIVE SumSeq(_)
SumSeq(s) == IF s = <<>> THEN 0 ELSE Head(s) + SumSeq(Tail(s))

RECURSIVE SumOver(_, _)
\* sum(f[k] for k in S)
SumOver(S, f) ==
    IF S = {} THEN 0
    ELSE LET k == CHOOSE x \in S : TRUE
         IN  f[k] + SumOver(S \ {k}, f)

RECURSIVE Insert(_, _)
Insert(x, s) ==
    IF s = <<>> THEN <<x>>
    ELSE IF x <= Head(s) THEN <<x>> \o s
    ELSE <<Head(s)>> \o Insert(x, Tail(s))

RECURSIVE SortedList(_)
SortedList(s) == IF s = <<>> THEN <<>> ELSE Insert(Head(s), SortedList(Tail(s)))

\* A mutant of NpQuantile: method 'lower', no interpolation.
NpQuantileLower(a, q) ==
    LET arr == SortedList(a)
        h   == RMul(R(Len(arr) - 1), q)
    IN  R(arr[RFloor(h) + 1])

\* A mutant of NpQuantile: the list is not sorted first.
NpQuantileUnsorted(a, q) ==
    LET n     == Len(a)
        h     == RMul(R(n - 1), q)
        lo    == RFloor(h)
        hi    == IF lo + 1 > n - 1 THEN n - 1 ELSE lo + 1
        gamma == RSub(h, R(lo))
    IN  RAdd(R(a[lo + 1]), RMul(gamma, R(a[hi + 1] - a[lo + 1])))

\* np.quantile(a, q) for a non-empty list a of ints and 0 <= q <= 1, with the
\* default method 'linear': the value at the virtual index (n - 1) * q of the
\* sorted list, interpolated linearly between its two neighbours.
NpQuantile(a, q) ==
    LET arr   == SortedList(a)
        n     == Len(arr)
        h     == RMul(R(n - 1), q)
        lo    == RFloor(h)
        hi    == IF lo + 1 > n - 1 THEN n - 1 ELSE lo + 1
        gamma == RSub(h, R(lo))
    IN  RAdd(R(arr[lo + 1]), RMul(gamma, R(arr[hi + 1] - arr[lo + 1])))

\* ------------------------------------------------------------------------
\* The data model: site records, stations, route files
\* ------------------------------------------------------------------------

\* The options of the "Select Truck Classes to Analyze" multiselect.
ClassNames ==
    {"Class 3", "Class 4", "Class 5", "Class 6",
     "Class 7", "Class 8", "Class 9", "Class 10"}

\* class_name.split(): the whitespace-separated words of an option.
Split(class_name) ==
    CASE class_name = "Class 3"  -> <<"Class", "3">>
      [] class_name = "Class 4"  -> <<"Class", "4">>
      [] class_name = "Class 5"  -> <<"Class", "5">>
      [] class_name = "Class 6"  -> <<"Class", "6">>
      [] class_name = "Class 7"  -> <<"Class", "7">>
      [] class_name = "Class 8"  -> <<"Class", "8">>
      [] class_name = "Class 9"  -> <<"Class", "9">>
      [] class_name = "Class 10" -> <<"Class", "10">>

\* f"Class{word}": the record key made of a word.
FormatKey(word) ==
    CASE word = "3"  -> "Class3"
      [] word = "4"  -> "Class4"
      [] word = "5"  -> "Class5"
      [] word = "6"  -> "Class6"
      [] word = "7"  -> "Class7"
      [] word = "8"  -> "Class8"
      [] word = "9"  -> "Class9"
      [] word = "10" -> "Class10"
      [] word = "Class" -> "ClassClass"

\* f"Class{class_name.split()[-1]}"
ClassKey(class_name) ==
    LET words == Split(class_name) IN FormatKey(words[Len(words)])

\* One record of site_statistics.json's "statistics" list: a nested site
\* descriptor and the eight class counts.  Coordinates are whole numbers here.
SiteRecord(n, roadname, locationDesc, lat, long, c3, c4, c5, c6, c7, c8, c9, c10) ==
    [site |-> [siteNumber |-> n, roadname |-> roadname,
               locationDesc |-> locationDesc, lat |-> lat, long |-> long],
     Class3 |-> c3, Class4 |-> c4, Class5 |-> c5, Class6 |-> c6,
     Class7 |-> c7, Class8 |-> c8, Class9 |-> c9, Class10 |-> c10]

\* The records the modelled files are made of: totals 0, 10, 50 and 90,
\* spread differently over the classes.
SitePool ==
    <<SiteRecord(0, <<"Albany Hwy">>, <<"North of Albany">>,
                 -34, 115, 0, 0, 0, 0, 0, 0, 0, 0),
      SiteRecord(0, <<"Great Eastern Hwy">>, <<"East of Northam", ",", " WA">>,
                 -32, 116, 10, 0, 0, 0, 0, 0, 0, 0),
      SiteRecord(0, <<"Brand Hwy">>, <<"South of ", "\"", "Cataby", "\"">>,
                 -31, 117, 0, 20, 0, 0, 0, 30, 0, 0),
      SiteRecord(0, <<"North West Coastal Hwy">>, <<"Geraldton", ",", "N">>,
                 -28, 114, 5, 0, 0, 40, 0, 0, 0, 45)>>

\* The lists of at most MaxSites records, in pool order (a record may repeat),
\* numbered by position.
SiteLists ==
    LET Picks == UNION {[1..n -> 1..Len(SitePool)] : n \in 0..MaxSites}
        Ordered(p) == \A i \in 1..(Len(p) - 1) : p[i] <= p[i + 1]
    IN  {[i \in 1..Len(p) |->
            [SitePool[p[i]] EXCEPT !.site.siteNumber = i]] :
         p \in {q \in Picks : Ordered(q)}}

\* The scenario of three sites with totals 10, 50 and 90.
Sites_10_50_90 ==
    [i \in 1..3 |-> [SitePool[i + 1] EXCEPT !.site.siteNumber = i]]

\* A pandas DataFrame of hydrogen stations (its rows), or None.
DataFrame(rows) == [py |-> "DataFrame", rows |-> rows]
NoDataFrame == [py |-> "None", rows |-> <<>>]

\* A row of hydrogen_refuelling_stations.csv (well-formed: every field a
\* string or a number).
StationRow(k) == [Lat |-> -32 + k, Long |-> 115 + k, name |-> k]

StationRows(n) == [k \in 1..n |-> StationRow(k)]

\* The parsed content of a GeoJSON file (a dict of len keys), or None.  The
\* geometry is opaque: src names the file it came from.
GeoJson(src, len) == [py |-> "dict", len |-> len, src |-> src]
NoGeoJson == [py |-> "None", len |-> 0, src |-> "None"]

\* A folium.Map, or None.
NoMap == [py |-> "None", location |-> <<>>, children |-> <<>>]

\* A local variable that was never assigned.
Unbound == <<0, 0>>

\* Python's truth value of a list, of a dict-or-None.
ListTruthy(l) == l # <<>>
DictTruthy(d) == d.py # "None" /\ d.len > 0

\* d.get(key, default)
Get(d, key, default) == IF key \in DOMAIN d THEN d[key] ELSE default

\* ------------------------------------------------------------------------
\* create_traffic_map
\* ------------------------------------------------------------------------

\* class_keys: the record keys of the selected classes, [] when none is
\* selected.  (The multiselect's list holds no option twice and the sums do not
\* depend on its order: it is held as a set.)
ClassKeys(selected_classes) ==
    IF selected_classes # {} THEN {ClassKey(c) : c \in selected_classes} ELSE {}

\* d['Class3'] + d['Class4'] + ... + d['Class10']
TotalOf(d) ==
    d.Class3 + d.Class4 + d.Class5 + d.Class6
        + d.Class7 + d.Class8 + d.Class9 + d.Class10

\* sum(d.get(key, 0) for key in class_keys)
CombinedGet(d, class_keys) ==
    SumOver(class_keys, [k \in class_keys |-> Get(d, k, 0)])

\* sum(item[key] for key in class_keys)
CombinedCount(item, class_keys) == SumOver(class_keys, item)

\* all_combined_counts, or all_totals when no class is selected.
AllCounts(data, selected_classes) ==
    IF selected_classes # {}
    THEN [i \in 1..Len(data) |-> CombinedGet(data[i], ClassKeys(selected_classes))]
    ELSE [i \in 1..Len(data) |-> TotalOf(data[i])]

TopThirdThreshold(data, selected_classes) ==
    LET counts == AllCounts(data, selected_classes)
    IN  IF counts # <<>> THEN NpQuantile(counts, Rat(67, 100)) ELSE R(0)

MiddleThirdThreshold(data, selected_classes) ==
    LET counts == AllCounts(data, selected_classes)
    IN  IF counts # <<>> THEN NpQuantile(counts, Rat(33, 100)) ELSE R(0)

\* A mutant of Color: >= for >.
ColorInclusive(count, top_third_threshold, middle_third_threshold) ==
    IF ~RLess(R(count), top_third_threshold) THEN "red"
    ELSE IF ~RLess(R(count), middle_third_threshold) THEN "orange"
    ELSE "green"

\* The if / elif / else on the two thresholds.
Color(count, top_third_threshold, middle_third_threshold) ==
    IF RLess(top_third_threshold, R(count)) THEN "red"
    ELSE IF RLess(middle_third_threshold, R(count)) THEN "orange"
    ELSE "green"

\* The count a site's colour is decided on: combined_count, or total_traffic
\* when no class is selected.
MarkerCount(item, selected_classes) ==
    IF selected_classes # {}
    THEN CombinedCount(item, ClassKeys(selected_classes))
    ELSE TotalOf(item)

\* The folium.Marker of one site: where it stands, its popup's site number,
\* the count of its tooltip and its icon.
TrafficMarker(item, selected_classes, top, middle) ==
    [kind     |-> "traffic",
     location |-> <<item.site.lat, item.site.long>>,
     site     |-> item.site.siteNumber,
     count    |-> MarkerCount(item, selected_classes),
     color    |-> Color(MarkerCount(item, selected_classes), top, middle),
     icon     |-> "truck"]

\* A mutant of TrafficMarkers: a site that counted nothing gets no marker.
TrafficMarkersSkipZero(data, show_traffic, selected_classes, top, middle) ==
    LET Counted(marker) == marker.count > 0
    IN  IF show_traffic
        THEN SelectSeq([i \in 1..Len(data) |->
                          TrafficMarker(data[i], selected_classes, top, middle)],
                       Counted)
        ELSE <<>>

TrafficMarkers(data, show_traffic, selected_classes, top, middle) ==
    IF show_traffic
    THEN [i \in 1..Len(data) |->
            TrafficMarker(data[i], selected_classes, top, middle)]
    ELSE <<>>

\* A mutant of HydrogenMarkers: the switch of the layer is not read.
HydrogenMarkersAlways(hydrogen_stations, show_hydrogen) ==
    IF hydrogen_stations.py # "None" /\ hydrogen_stations.rows # <<>>
    THEN [k \in 1..Len(hydrogen_stations.rows) |->
            [kind     |-> "hydrogen",
             location |-> <<hydrogen_stations.rows[k].Lat,
                            hydrogen_stations.rows[k].Long>>,
             site     |-> hydrogen_stations.rows[k].name,
             count    |-> 0,
             color    |-> "blue",
             icon     |-> "gas-pump"]]
    ELSE <<>>

\* The folium.Marker of each hydrogen station.
HydrogenMarkers(hydrogen_stations, show_hydrogen) ==
    IF show_hydrogen /\ hydrogen_stations.py # "None"
                     /\ hydrogen_stations.rows # <<>>
    THEN [k \in 1..Len(hydrogen_stations.rows) |->
            [kind     |-> "hydrogen",
             location |-> <<hydrogen_stations.rows[k].Lat,
                            hydrogen_stations.rows[k].Long>>,
             site     |-> hydrogen_stations.rows[k].name,
             count    |-> 0,
             color    |-> "blue",
             icon     |-> "gas-pump"]]
    ELSE <<>>

\* The folium.GeoJson layer of a route file, in the colour of its style.
RouteLayer(route_data, show, color) ==
    IF show /\ DictTruthy(route_data)
    THEN <<[kind     |-> "GeoJson",
            location |-> <<>>,
            site     |-> route_data.src,
            count    |-> 0,
            color    |-> color,
            icon     |-> "line"]>>
    ELSE <<>>

\* A mutant of NoData: the early return is gone.
NoDataNever(data) == FALSE

\* if not data: return None
NoData(data) == ~ListTruthy(data)

\* What a call leaves: the value returned, the exception raised (None when it
\* returned) and the two threshold locals.
CreateTrafficMap(data, hydrogen_stations, railway_data, road_data, secondary_data, show_traffic, show_hydrogen, show_railway, show_roads, show_secondary, selected_classes) ==
    IF NoData(data)
    THEN [ret |-> NoMap, raised |-> None,
          top_third_threshold |-> Unbound, middle_third_threshold |-> Unbound]
    ELSE LET lats == [i \in 1..Len(data) |-> data[i].site.lat]
             lons == [i \in 1..Len(data) |-> data[i].site.long]
         IN  IF Len(lats) = 0
             THEN [ret |-> NoMap, raised |-> "ZeroDivisionError",
                   top_third_threshold    |-> Unbound,
                   middle_third_threshold |-> Unbound]
             ELSE LET center_lat == RDiv(R(SumSeq(lats)), R(Len(lats)))
                      center_lon == RDiv(R(SumSeq(lons)), R(Len(lons)))
                      top    == TopThirdThreshold(data, selected_classes)
                      middle == MiddleThirdThreshold(data, selected_classes)
                      m == [py       |-> "Map",
                            location |-> <<center_lat, center_lon>>,
                            children |->
                                TrafficMarkers(data, show_traffic,
                                               selected_classes, top, middle)
                                \o HydrogenMarkers(hydrogen_stations, show_hydrogen)
                                \o RouteLayer(railway_data, show_railway, "red")
                                \o RouteLayer(road_data, show_roads, "blue")
                                \o RouteLayer(secondary_data, show_secondary, "green")]
                  IN  [ret |-> m, raised |-> None,
                       top_third_threshold    |-> top,
                       middle_third_threshold |-> middle]

\* ------------------------------------------------------------------------
\* The loaders and the Maps client
\* ------------------------------------------------------------------------

Notice(level, text) == [level |-> level, text |-> text]

\* A file on disk: whether it exists, and what it holds.
File(exists, content) == [exists |-> exists, content |-> content]

\* googlemaps.Client(key=api_key) raises ValueError without a key; the
\* exception is caught, shown, and None is returned.
InitializeGoogleMaps(key) ==
    IF key = None
    THEN [ret |-> None,
          notices |-> <<Notice("error", "Failed to initialize Google Maps API")>>]
    ELSE [ret |-> "Client", notices |-> <<>>]

\* data['statistics'], or [] with an error when the file is not found.
LoadData(fs) ==
    IF fs.site_statistics.exists
    THEN [ret |-> fs.site_statistics.content, notices |-> <<>>]
    ELSE [ret |-> <<>>,
          notices |-> <<Notice("error", "site_statistics.json not found")>>]

\* A mutant of LoadHydrogenStations: the missing file is passed over in
\* silence.
LoadHydrogenStationsSilent(fs) ==
    IF fs.hydrogen.exists
    THEN [ret |-> DataFrame(fs.hydrogen.content), notices |-> <<>>]
    ELSE [ret |-> DataFrame(<<>>), notices |-> <<>>]

\* The DataFrame of the CSV, or an empty one with a warning.
LoadHydrogenStations(fs) ==
    IF fs.hydrogen.exists
    THEN [ret |-> DataFrame(fs.hydrogen.content), notices |-> <<>>]
    ELSE [ret |-> DataFrame(<<>>),
          notices |-> <<Notice("warning", "hydrogen_refuelling_stations.csv not found")>>]

LoadRailwayData(fs) ==
    IF fs.rail.exists
    THEN [ret |-> GeoJson("key_freight_route_rail.geojson", fs.rail.content),
          notices |-> <<>>]
    ELSE [ret |-> NoGeoJson,
          notices |-> <<Notice("warning", "key_freight_route_rail.geojson not found")>>]

LoadRoadData(fs) ==
    IF fs.road.exists
    THEN [ret |-> GeoJson("key_freight_route_road.geojson", fs.road.content),
          notices |-> <<>>]
    ELSE [ret |-> NoGeoJson,
          notices |-> <<Notice("warning", "key_freight_route_road.geojson not found")>>]

LoadSecondaryRouteData(fs) ==
    IF fs.secondary.exists
    THEN [ret |-> GeoJson("secondary_route.geojson", fs.secondary.content),
          notices |-> <<>>]
    ELSE [ret |-> NoGeoJson,
          notices |-> <<Notice("warning", "secondary_route.geojson not found")>>]

\* ------------------------------------------------------------------------
\* The fuel estimate
\* ------------------------------------------------------------------------

\* The options of the "Select Truck Class" selectbox: list(fuel_consumption.keys())
\* of the table beside the selectbox.
TruckClassOptions ==
    {"Class 4 (Medium Rigid)", "Class 5 (Heavy Rigid)",
     "Class 7 (Arctic 4 Axle)", "Class 8 (Artic 5 Axle)",
     "Class 9 (Artic 6 Axle)", "Class 9 (Rigid + 5 Axle Dog)",
     "Class 10 (B-Double)"}

\* fuel_consumption[truck_class] of the table in the result column (L/100km).
FuelConsumption(truck_class) ==
    CASE truck_class = "Class 4 (Medium Rigid)"       -> Rat(1245859, 100000)
      [] truck_class = "Class 5 (Heavy Rigid)"        -> Rat(2322869, 100000)
      [] truck_class = "Class 7 (Arctic 4 Axle)"      -> Rat(2724712, 100000)
      [] truck_class = "Class 8 (Artic 5 Axle)"       -> Rat(3044964, 100000)
      [] truck_class = "Class 9 (Artic 6 Axle)"       -> Rat(3814329, 100000)
      [] truck_class = "Class 9 (Rigid + 5 Axle Dog)" -> Rat(3814329, 100000)
      [] truck_class = "Class 10 (B-Double)"          -> Rat(4148179, 100000)

\* A mutant of FuelNeeded: the rate is taken per km, not per 100 km.
FuelNeededPerKm(distance_value, truck_class) ==
    RMul(RDiv(R(distance_value), R(1000)), FuelConsumption(truck_class))

\* distance_km = distance_value / 1000
\* fuel_needed = (distance_km / 100) * fuel_consumption[truck_class]
FuelNeeded(distance_value, truck_class) ==
    LET distance_km == RDiv(R(distance_value), R(1000))
    IN  RMul(RDiv(distance_km, R(100)), FuelConsumption(truck_class))

\* hydrogen_use = (fuel_needed * 45) / 120
HydrogenUse(fuel_needed) == RDiv(RMul(fuel_needed, R(45)), R(120))

\* ------------------------------------------------------------------------
\* The table of the page
\* ------------------------------------------------------------------------

\* One row of display_data (the 'Heavy Truck %' column, a rounded float, is
\* left out).
DisplayRow(item) ==
    [SiteNumber    |-> item.site.siteNumber,
     RoadName      |-> item.site.roadname,
     Location      |-> item.site.locationDesc,
     TotalVehicles |-> item.Class3 + item.Class4 + item.Class5 + item.Class6
                         + item.Class7 + item.Class8 + item.Class9 + item.Class10,
     MediumTrucks  |-> item.Class3 + item.Class4 + item.Class5,
     HeavyTrucks   |-> item.Class6 + item.Class7 + item.Class8
                         + item.Class9 + item.Class10]

DisplayData(filtered_data) ==
    [i \in 1..Len(filtered_data) |-> DisplayRow(filtered_data[i])]

\* The columns of df_display, in the order of the keys of a row.
DisplayColumns ==
    <<"Site Number", "Road Name", "Location", "Total Vehicles (Class 3+)",
      "Medium Trucks (3-5)", "Heavy Trucks (6+)">>

\* Text is a sequence of pieces; the comma, the double quote and the line
\* ends are pieces of their own, every other piece is free of them.
DecimalDigits == <<"0", "1", "2", "3", "4", "5", "6", "7", "8", "9">>

\* str() of an int.
RECURSIVE Str(_)
Str(n) ==
    IF n < 0 THEN <<"-">> \o Str(-n)
    ELSE IF n < 10 THEN <<DecimalDigits[n + 1]>>
    ELSE Str(n \div 10) \o <<DecimalDigits[(n % 10) + 1]>>

\* The text of one cell of df_display.
CellText(row, column) ==
    CASE column = "Site Number"               -> Str(row.SiteNumber)
      [] column = "Road Name"                 -> row.RoadName
      [] column = "Location"                  -> row.Location
      [] column = "Total Vehicles (Class 3+)" -> Str(row.TotalVehicles)
      [] column = "Medium Trucks (3-5)"       -> Str(row.MediumTrucks)
      [] column = "Heavy Trucks (6+)"         -> Str(row.HeavyTrucks)

\* The pieces that make to_csv quote a field.
NeedsQuoting == {",", "\"", "\n", "\r"}

\* A field's text with every double quote doubled.
RECURSIVE DoubleQuotes(_)
DoubleQuotes(text) ==
    IF text = <<>> THEN <<>>
    ELSE (IF Head(text) = "\"" THEN <<"\"", "\"">> ELSE <<Head(text)>>)
         \o DoubleQuotes(Tail(text))

\* A field written as it is, whatever it holds.
QuoteMinimalNever(text) == text

\* A field as to_csv writes it (quoting=QUOTE_MINIMAL, doublequote=True).
QuoteMinimal(text) ==
    IF \E i \in DOMAIN text : text[i] \in NeedsQuoting
    THEN <<"\"">> \o DoubleQuotes(text) \o <<"\"">>
    ELSE text

\* One line of the file: the fields, commas between them, a line end.
RECURSIVE CsvLine(_)
CsvLine(fields) ==
    IF Len(fields) = 1 THEN QuoteMinimal(fields[1]) \o <<"\n">>
    ELSE QuoteMinimal(Head(fields)) \o <<",">> \o CsvLine(Tail(fields))

\* The lines of the rows from the k-th on.
RECURSIVE CsvRows(_, _)
CsvRows(df, k) ==
    IF k > Len(df) THEN <<>>
    ELSE CsvLine([c \in DOMAIN DisplayColumns |->
                    CellText(df[k], DisplayColumns[c])])
         \o CsvRows(df, k + 1)

\* df_display.to_csv(index=False): the header line, then one line per row.
ToCsv(df) ==
    CsvLine([c \in DOMAIN DisplayColumns |-> <<DisplayColumns[c]>>])
    \o CsvRows(df, 1)

\* ------------------------------------------------------------------------
\* State
\* ------------------------------------------------------------------------

VARIABLES
    entry,              \* the entry point exercised: "main", "create_traffic_map"
                        \* or "calculate_distance"
    pc,                 \* "start", "in_calculate_distance", "done", "stopped", "raised"
    files,              \* the five input files on disk
    api_key,            \* os.getenv('GOOGLE_MAPS_API_KEY')
    ui,                 \* the widget values of this run
    gmaps,              \* the Maps client, or None
    data,               \* the site records
    hydrogen_stations,
    railway_data,
    road_data,
    secondary_data,
    traffic_map,        \* what create_traffic_map returned
    map_locals,         \* its two threshold locals at the return
    cd,                 \* the activation of calculate_distance
    calls,              \* the outbound calls made, in order
    answers,            \* what came back for each, in order
    distance_result,    \* what calculate_distance returned
    fuel_needed,
    hydrogen_use,
    notices,            \* st.error / st.warning / st.success / st.info, in order
    page,               \* the sections rendered, in order
    df_display,         \* the table shown and exported
    csv,                \* the text behind the download button
    raised,             \* the exception that left the entry point, or None
    runs                \* the runs of the entry point begun in this session

vars ==
    <<entry, pc, files, api_key, ui, gmaps, data, hydrogen_stations,
      railway_data, road_data, secondary_data, traffic_map, map_locals, cd,
      calls, answers, distance_result, fuel_needed, hydrogen_use, notices,
      page, df_display, csv, raised, runs>>

\* The widgets as a first visit finds them.
DefaultUI ==
    [show_traffic        |-> TRUE,
     show_hydrogen       |-> TRUE,
     show_railway        |-> FALSE,
     show_roads          |-> FALSE,
     show_secondary      |-> FALSE,
     selected_classes    |-> {},
     truck_class         |-> "Class 4 (Medium Rigid)",
     selected_site_index |-> 0,
     destination         |-> "",
     button              |-> FALSE]

\* calculate_distance's return values: the dict, or None.
NoResult ==
    [py |-> "None", distance |-> <<>>, duration |-> <<>>,
     distance_value |-> 0, destination_coords |-> <<>>]

\* No activation of calculate_distance.
NoCall ==
    [pc |-> "idle", gmaps |-> None, origin |-> <<>>,
     destination_address |-> "", dest |-> <<>>]

\* The distances (metres) a distance-matrix answer carries.
DistanceValues == {1000, 45000, 100000, 250000}

\* The answers of gmaps.geocode: an exception, no result, one result.
GeocodeResponses == {"raise", "empty", "found"}

\* The answers of gmaps.distance_matrix: an exception, or an element with a
\* status (and, when 'OK', a distance).
MatrixResponses ==
    {[status |-> "raise", value |-> 0],
     [status |-> "ZERO_RESULTS", value |-> 0],
     [status |-> "NOT_FOUND", value |-> 0]}
    \cup {[status |-> "OK", value |-> d] : d \in DistanceValues}

\* Where the geocoder puts a resolved destination.
GeocodedLocation == <<-32, 116>>

\* What no run has assigned yet.
Blank ==
    /\ gmaps = None
    /\ data = <<>>
    /\ hydrogen_stations = NoDataFrame
    /\ railway_data = NoGeoJson
    /\ road_data = NoGeoJson
    /\ secondary_data = NoGeoJson

Fresh ==
    /\ pc = "start"
    /\ traffic_map = NoMap
    /\ map_locals = [top_third_threshold |-> Unbound,
                     middle_third_threshold |-> Unbound]
    /\ cd = NoCall
    /\ calls = <<>>
    /\ answers = <<>>
    /\ distance_result = NoResult
    /\ fuel_needed = Unbound
    /\ hydrogen_use = Unbound
    /\ notices = <<>>
    /\ page = <<>>
    /\ df_display = <<>>
    /\ csv = <<>>
    /\ raised = None
    /\ runs = 0

AllPresent ==
    [site_statistics |-> File(TRUE, Sites_10_50_90),
     hydrogen        |-> File(TRUE, StationRows(MaxStations)),
     rail            |-> File(TRUE, 2),
     road            |-> File(TRUE, 2),
     secondary       |-> File(TRUE, 2)]

\* The file systems of a run of main: each file present or not, the site
\* file with three records or with none.
FileSystems ==
    {[site_statistics |-> File(s # "absent",
                               IF s = "three" THEN Sites_10_50_90 ELSE <<>>),
      hydrogen        |-> File(h, IF h THEN StationRows(MaxStations) ELSE <<>>),
      rail            |-> File(r1, IF r1 THEN 2 ELSE 0),
      road            |-> File(r2, IF r2 THEN 2 ELSE 0),
      secondary       |-> File(r3, IF r3 THEN 2 ELSE 0)] :
     s \in {"three", "none", "absent"}, h \in BOOLEAN,
     r1 \in BOOLEAN, r2 \in BOOLEAN, r3 \in BOOLEAN}

\* The widget values of a run of main.
MainUIs ==
    {[DefaultUI EXCEPT !.show_railway = routes, !.show_roads = routes,
                       !.show_secondary = routes,
                       !.selected_classes = sel,
                       !.truck_class = t,
                       !.selected_site_index = i,
                       !.destination = d,
                       !.button = b] :
     routes \in BOOLEAN, sel \in {{}, {"Class 3", "Class 10"}},
     t \in TruckClassOptions, i \in {0, 2}, d \in {"", "Perth"},
     b \in BOOLEAN}

\* A run of the script.
InitMain ==
    /\ entry = "main"
    /\ files \in FileSystems
    /\ api_key \in {None, "AIza"}
    /\ ui \in MainUIs
    /\ Blank
    /\ Fresh

\* create_traffic_map called on any list of sites, any class selection, with
\* the traffic layer on or off.
InitMapTiers ==
    /\ entry = "create_traffic_map"
    /\ files = AllPresent
    /\ api_key = None
    /\ gmaps = None
    /\ data \in SiteLists
    /\ hydrogen_stations = DataFrame(StationRows(MaxStations))
    /\ railway_data = GeoJson("key_freight_route_rail.geojson", 2)
    /\ road_data = GeoJson("key_freight_route_road.geojson", 2)
    /\ secondary_data = GeoJson("secondary_route.geojson", 2)
    /\ \E sel \in SUBSET ClassNames, t \in BOOLEAN :
         ui = [DefaultUI EXCEPT !.selected_classes = sel, !.show_traffic = t]
    /\ Fresh

\* create_traffic_map called with any flags and any overlay data.
InitMapOverlays ==
    /\ entry = "create_traffic_map"
    /\ files = AllPresent
    /\ api_key = None
    /\ gmaps = None
    /\ data \in {<<>>, SubSeq(Sites_10_50_90, 1, 1), Sites_10_50_90}
    /\ hydrogen_stations \in
         {NoDataFrame, DataFrame(<<>>), DataFrame(StationRows(MaxStations))}
    /\ railway_data \in
         {NoGeoJson} \cup {GeoJson("key_freight_route_rail.geojson", n) : n \in {0, 2}}
    /\ road_data \in
         {NoGeoJson} \cup {GeoJson("key_freight_route_road.geojson", n) : n \in {0, 2}}
    /\ secondary_data \in
         {NoGeoJson} \cup {GeoJson("secondary_route.geojson", n) : n \in {0, 2}}
    /\ \E t \in BOOLEAN, h \in BOOLEAN, r1 \in BOOLEAN, r2 \in BOOLEAN,
          r3 \in BOOLEAN, sel \in {{}, {"Class 3", "Class 10"}} :
         ui = [DefaultUI EXCEPT !.show_traffic = t, !.show_hydrogen = h,
                                !.show_railway = r1, !.show_roads = r2,
                                !.show_secondary = r3,
                                !.selected_classes = sel]
    /\ Fresh

\* calculate_distance called with or without a client, with any destination.
InitCalculateDistance ==
    /\ entry = "calculate_distance"
    /\ files = AllPresent
    /\ api_key \in {None, "AIza"}
    /\ gmaps = (IF api_key = None THEN None ELSE "Client")
    /\ data = Sites_10_50_90
    /\ hydrogen_stations = NoDataFrame
    /\ railway_data = NoGeoJson
    /\ road_data = NoGeoJson
    /\ secondary_data = NoGeoJson
    /\ \E d \in {"", "Perth"}, i \in {0, 2} :
         ui = [DefaultUI EXCEPT !.destination = d, !.selected_site_index = i]
    /\ Fresh

Init == InitMain \/ InitMapTiers \/ InitMapOverlays \/ InitCalculateDistance

\* ------------------------------------------------------------------------
\* calculate_distance
\* ------------------------------------------------------------------------

\* A mutant of CannotCalculate: the destination is not tested.
CannotCalculateClientOnly(g, destination_address) == g = None

\* if not gmaps or not destination_address: return None
CannotCalculate(g, destination_address) ==
    g = None \/ destination_address = ""

\* An outbound call of the client.
Call(api, args) == [api |-> api, args |-> args]

\* The call of calculate_distance up to its first outbound call: it returns
\* None at once, or sends the geocoding request.
EnterCalculateDistance(g, origin_lat, origin_lon, destination_address) ==
    LET frame == [pc |-> "geocode", gmaps |-> g,
                  origin |-> <<origin_lat, origin_lon>>,
                  destination_address |-> destination_address,
                  dest |-> <<>>]
    IN  IF CannotCalculate(g, destination_address)
        THEN [cd |-> [frame EXCEPT !.pc = "returned"], calls |-> <<>>]
        ELSE [cd |-> frame,
              calls |-> <<Call("geocode", <<destination_address>>)>>]

\* Where control is once calculate_distance has returned.
AfterReturn == IF entry = "main" THEN "in_calculate_distance" ELSE "done"

\* if not geocode_result: return None
NoGeocodeResult(response) == response = "empty"

\* result['rows'][0]['elements'][0]['status'] == 'OK'
ElementOK(response) == response.status = "OK"

\* The dict returned for an OK element.
ResultDict(response, dest) ==
    [py |-> "dict",
     distance           |-> <<response.value, "m, as text">>,
     duration           |-> <<response.value, "m, as driving time">>,
     distance_value     |-> response.value,
     destination_coords |-> dest]

\* calculate_distance called directly.
CallCalculateDistance ==
    /\ entry = "calculate_distance"
    /\ pc = "start"
    /\ LET origin == data[ui.selected_site_index + 1].site
           e == EnterCalculateDistance(gmaps, origin.lat, origin.long,
                                       ui.destination)
       IN  /\ cd' = e.cd
           /\ calls' = calls \o e.calls
           /\ pc' = IF e.cd.pc = "returned" THEN "done" ELSE "in_calculate_distance"
    /\ distance_result' = NoResult
    /\ UNCHANGED <<entry, runs, files, api_key, ui, gmaps, data, hydrogen_stations,
                   railway_data, road_data, secondary_data, traffic_map,
                   map_locals, answers, fuel_needed, hydrogen_use, notices,
                   page, df_display, csv, raised>>

\* A mutant of GeocodeReturn: a geocoding request that raised is sent again
\* (twice at most).
GeocodeReturnRetry ==
    /\ cd.pc = "geocode"
    /\ \E response \in GeocodeResponses :
         /\ answers' = Append(answers, response)
         /\ IF response = "raise" /\ Len(calls) < 3
            THEN /\ calls' = Append(calls, Call("geocode", <<cd.destination_address>>))
                 /\ UNCHANGED <<notices, cd, distance_result, pc>>
            ELSE IF response = "raise"
            THEN /\ notices' = Append(notices, Notice("error", "Error calculating distance"))
                 /\ cd' = [cd EXCEPT !.pc = "returned"]
                 /\ distance_result' = NoResult
                 /\ pc' = AfterReturn
                 /\ calls' = calls
            ELSE IF NoGeocodeResult(response)
            THEN /\ cd' = [cd EXCEPT !.pc = "returned"]
                 /\ distance_result' = NoResult
                 /\ pc' = AfterReturn
                 /\ UNCHANGED <<notices, calls>>
            ELSE /\ cd' = [cd EXCEPT !.pc = "distance_matrix",
                                     !.dest = GeocodedLocation]
                 /\ calls' = Append(calls,
                                    Call("distance_matrix",
                                         <<cd.origin, GeocodedLocation>>))
                 /\ UNCHANGED <<notices, distance_result, pc>>
    /\ UNCHANGED <<entry, runs, files, api_key, ui, gmaps, data, hydrogen_stations,
                   railway_data, road_data, secondary_data, traffic_map,
                   map_locals, fuel_needed, hydrogen_use, page, df_display, csv,
                   raised>>

\* gmaps.geocode answers (or raises): the except clause shows the error and
\* returns None, an empty answer returns None, a result sends the
\* distance-matrix request.
GeocodeReturn ==
    /\ cd.pc = "geocode"
    /\ \E response \in GeocodeResponses :
         /\ answers' = Append(answers, response)
         /\ IF response = "raise"
            THEN /\ notices' = Append(notices, Notice("error", "Error calculating distance"))
                 /\ cd' = [cd EXCEPT !.pc = "returned"]
                 /\ distance_result' = NoResult
                 /\ pc' = AfterReturn
                 /\ calls' = calls
            ELSE IF NoGeocodeResult(response)
            THEN /\ cd' = [cd EXCEPT !.pc = "returned"]
                 /\ distance_result' = NoResult
                 /\ pc' = AfterReturn
                 /\ UNCHANGED <<notices, calls>>
            ELSE /\ cd' = [cd EXCEPT !.pc = "distance_matrix",
                                     !.dest = GeocodedLocation]
                 /\ calls' = Append(calls,
                                    Call("distance_matrix",
                                         <<cd.origin, GeocodedLocation>>))
                 /\ UNCHANGED <<notices, distance_result, pc>>
    /\ UNCHANGED <<entry, runs, files, api_key, ui, gmaps, data, hydrogen_stations,
                   railway_data, road_data, secondary_data, traffic_map,
                   map_locals, fuel_needed, hydrogen_use, page, df_display, csv,
                   raised>>

\* gmaps.distance_matrix answers (or raises).
MatrixReturn ==
    /\ cd.pc = "distance_matrix"
    /\ \E response \in MatrixResponses :
         /\ answers' = Append(answers, response.status)
         /\ IF response.status = "raise"
            THEN /\ notices' = Append(notices, Notice("error", "Error calculating distance"))
                 /\ distance_result' = NoResult
            ELSE IF ElementOK(response)
            THEN /\ distance_result' = ResultDict(response, cd.dest)
                 /\ notices' = notices
            ELSE /\ distance_result' = NoResult
                 /\ notices' = notices
    /\ cd' = [cd EXCEPT !.pc = "returned"]
    /\ pc' = AfterReturn
    /\ UNCHANGED <<entry, runs, files, api_key, ui, gmaps, data, hydrogen_stations,
                   railway_data, road_data, secondary_data, traffic_map,
                   map_locals, calls, fuel_needed, hydrogen_use, page,
                   df_display, csv, raised>>

\* ------------------------------------------------------------------------
\* create_traffic_map called directly
\* ------------------------------------------------------------------------

\* create_traffic_map keeping the thresholds of its first call.
CallCreateTrafficMapCached ==
    /\ entry = "create_traffic_map"
    /\ pc = "start"
    /\ LET r == CreateTrafficMap(data, hydrogen_stations, railway_data,
                                 road_data, secondary_data, ui.show_traffic,
                                 ui.show_hydrogen, ui.show_railway,
                                 ui.show_roads, ui.show_secondary,
                                 ui.selected_classes)
       IN  /\ traffic_map' = r.ret
           /\ map_locals' =
                IF runs > 0 THEN map_locals
                ELSE [top_third_threshold    |-> r.top_third_threshold,
                      middle_third_threshold |-> r.middle_third_threshold]
           /\ raised' = r.raised
           /\ pc' = IF r.raised = None THEN "done" ELSE "raised"
    /\ runs' = runs + 1
    /\ UNCHANGED <<entry, files, api_key, ui, gmaps, data, hydrogen_stations,
                   railway_data, road_data, secondary_data, cd, calls, answers,
                   distance_result, fuel_needed, hydrogen_use, notices, page,
                   df_display, csv>>

CallCreateTrafficMap ==
    /\ entry = "create_traffic_map"
    /\ pc = "start"
    /\ LET r == CreateTrafficMap(data, hydrogen_stations, railway_data,
                                 road_data, secondary_data, ui.show_traffic,
                                 ui.show_hydrogen, ui.show_railway,
                                 ui.show_roads, ui.show_secondary,
                                 ui.selected_classes)
       IN  /\ traffic_map' = r.ret
           /\ map_locals' = [top_third_threshold    |-> r.top_third_threshold,
                             middle_third_threshold |-> r.middle_third_threshold]
           /\ raised' = r.raised
           /\ pc' = IF r.raised = None THEN "done" ELSE "raised"
    /\ runs' = runs + 1
    /\ UNCHANGED <<entry, files, api_key, ui, gmaps, data, hydrogen_stations,
                   railway_data, road_data, secondary_data, cd, calls, answers,
                   distance_result, fuel_needed, hydrogen_use, notices, page,
                   df_display, csv>>

\* ------------------------------------------------------------------------
\* main
\* ------------------------------------------------------------------------

\* The notices of main's start: the client, then the five loaders.
StartNotices(fs, key) ==
    InitializeGoogleMaps(key).notices
    \o (IF InitializeGoogleMaps(key).ret = None
        THEN <<Notice("warning", "Google Maps API not available")>>
        ELSE <<>>)
    \o LoadData(fs).notices
    \o LoadHydrogenStations(fs).notices
    \o LoadRailwayData(fs).notices
    \o LoadRoadData(fs).notices
    \o LoadSecondaryRouteData(fs).notices

\* if not data: st.stop()
StopsEarly(d) == ~ListTruthy(d)

\* The legend is shown when a layer is switched on.
Legend(w) ==
    IF w.show_traffic \/ w.show_hydrogen \/ w.show_railway
         \/ w.show_roads \/ w.show_secondary
    THEN <<"legend">>
    ELSE <<>>

\* The page from the title to the inputs of the fuel estimation.
PageToFuelInputs(w, filtered_data, m) ==
    <<"title">> \o Legend(w)
    \o (IF ListTruthy(filtered_data) /\ m.py # "None" THEN <<"map">> ELSE <<>>)
    \o <<"fuel_inputs">>

\* The rest of the page: the chart of class totals, then the table and its
\* download button.
PageEnd(filtered_data) ==
    <<"chart">>
    \o (IF ListTruthy(filtered_data) THEN <<"table", "download">> ELSE <<>>)

\* if destination and gmaps
CanPress(w, g) == w.destination # "" /\ g # None

\* The branches of the button that make no call, with the client looked at
\* before the destination.
PressNoticesClientFirst(w, g) ==
    IF ~w.button \/ CanPress(w, g) THEN <<>>
    ELSE IF g = None
    THEN <<Notice("error", "Google Maps API is not available")>>
    ELSE IF w.destination = ""
    THEN <<Notice("warning", "Please enter a destination address.")>>
    ELSE <<>>

\* The branches of the button that make no call.
PressNotices(w, g) ==
    IF ~w.button \/ CanPress(w, g) THEN <<>>
    ELSE IF w.destination = ""
    THEN <<Notice("warning", "Please enter a destination address.")>>
    ELSE IF g = None
    THEN <<Notice("error", "Google Maps API is not available")>>
    ELSE <<>>

\* One run of the script, from its first line to its end, to st.stop(), or to
\* the outbound call it waits on.
Main ==
    /\ entry = "main"
    /\ pc = "start"
    /\ gmaps' = InitializeGoogleMaps(api_key).ret
    /\ data' = LoadData(files).ret
    /\ hydrogen_stations' = LoadHydrogenStations(files).ret
    /\ railway_data' = LoadRailwayData(files).ret
    /\ road_data' = LoadRoadData(files).ret
    /\ secondary_data' = LoadSecondaryRouteData(files).ret
    /\ IF StopsEarly(data')
       THEN /\ pc' = "stopped"
            /\ notices' = StartNotices(files, api_key)
            /\ page' = <<"title">>
            /\ UNCHANGED <<traffic_map, map_locals, cd, calls, df_display, csv, raised>>
       ELSE LET filtered_data == data'
                r == CreateTrafficMap(filtered_data, hydrogen_stations',
                                      railway_data', road_data', secondary_data',
                                      ui.show_traffic, ui.show_hydrogen,
                                      ui.show_railway, ui.show_roads,
                                      ui.show_secondary, ui.selected_classes)
                selected_site == data'[ui.selected_site_index + 1]
                e == EnterCalculateDistance(gmaps', selected_site.site.lat,
                                            selected_site.site.long,
                                            ui.destination)
            IN  /\ traffic_map' = r.ret
                /\ map_locals' =
                     [top_third_threshold    |-> r.top_third_threshold,
                      middle_third_threshold |-> r.middle_third_threshold]
                /\ raised' = r.raised
                /\ IF r.raised # None
                   THEN /\ pc' = "raised"
                        /\ notices' = StartNotices(files, api_key)
                        /\ page' = <<"title">> \o Legend(ui)
                        /\ UNCHANGED <<cd, calls, df_display, csv>>
                   ELSE IF ui.button /\ CanPress(ui, gmaps')
                   THEN /\ pc' = "in_calculate_distance"
                        /\ cd' = e.cd
                        /\ calls' = calls \o e.calls
                        /\ notices' = StartNotices(files, api_key)
                        /\ page' = PageToFuelInputs(ui, filtered_data, r.ret)
                        /\ UNCHANGED <<df_display, csv>>
                   ELSE /\ pc' = "done"
                        /\ notices' = StartNotices(files, api_key)
                                        \o PressNotices(ui, gmaps')
                        /\ page' = PageToFuelInputs(ui, filtered_data, r.ret)
                                     \o PageEnd(filtered_data)
                        /\ df_display' = DisplayData(filtered_data)
                        /\ csv' = ToCsv(df_display')
                        /\ UNCHANGED <<cd, calls>>
    /\ runs' = runs + 1
    /\ UNCHANGED <<entry, files, api_key, ui, answers, distance_result,
                   fuel_needed, hydrogen_use>>

\* main from the return of calculate_distance to its end: the result with
\* the two estimates, or the error; then the chart and the table.
MainResume ==
    /\ entry = "main"
    /\ pc = "in_calculate_distance"
    /\ cd.pc = "returned"
    /\ IF distance_result.py # "None"
       THEN /\ fuel_needed' = FuelNeeded(distance_result.distance_value,
                                         ui.truck_class)
            /\ hydrogen_use' = HydrogenUse(fuel_needed')
            /\ notices' = notices
                 \o <<Notice("success", "Distance calculated successfully!"),
                      Notice("info", "Route Details")>>
            /\ page' = page \o <<"result_metrics">> \o PageEnd(data)
       ELSE /\ notices' = Append(notices,
                                 Notice("error", "Failed to calculate distance."))
            /\ page' = page \o PageEnd(data)
            /\ UNCHANGED <<fuel_needed, hydrogen_use>>
    /\ df_display' = DisplayData(data)
    /\ csv' = ToCsv(df_display')
    /\ pc' = "done"
    /\ UNCHANGED <<entry, runs, files, api_key, ui, gmaps, data, hydrogen_stations,
                   railway_data, road_data, secondary_data, traffic_map,
                   map_locals, cd, calls, answers, distance_result, raised>>

Next ==
    \/ Main
    \/ MainResume
    \/ CallCreateTrafficMap
    \/ CallCalculateDistance
    \/ GeocodeReturn
    \/ MatrixReturn

Spec == Init /\ [][Next]_vars

\* ------------------------------------------------------------------------
\* A session: widget changes, each followed by a run
\* ------------------------------------------------------------------------

\* The class selections a session moves between.
SessionSelections ==
    {{}, {"Class 3"}, {"Class 8", "Class 10"}}

\* The five layer checkboxes.
LayerFlags ==
    {"show_traffic", "show_hydrogen", "show_railway", "show_roads",
     "show_secondary"}

\* The widget values with one checkbox flipped.
Flip(w, flag) ==
    CASE flag = "show_traffic"   -> [w EXCEPT !.show_traffic = ~w.show_traffic]
      [] flag = "show_hydrogen"  -> [w EXCEPT !.show_hydrogen = ~w.show_hydrogen]
      [] flag = "show_railway"   -> [w EXCEPT !.show_railway = ~w.show_railway]
      [] flag = "show_roads"     -> [w EXCEPT !.show_roads = ~w.show_roads]
      [] flag = "show_secondary" -> [w EXCEPT !.show_secondary = ~w.show_secondary]

\* The site lists of a session: one record, or MaxSites records.
SessionSiteLists == {l \in SiteLists : Len(l) \in {1, MaxSites}}

\* The widget values a session starts from.
SessionUIs ==
    {[DefaultUI EXCEPT !.show_traffic = t, !.show_hydrogen = h,
                       !.show_railway = r, !.selected_classes = sel] :
     t \in BOOLEAN, h \in BOOLEAN, r \in BOOLEAN, sel \in SessionSelections}

InitSession ==
    /\ ui \in SessionUIs
    /\ api_key = None
    /\ Fresh
    /\ \/ /\ entry = "main"
          /\ \E h \in BOOLEAN :
               files = [AllPresent EXCEPT
                          !.hydrogen = File(h, IF h THEN StationRows(MaxStations)
                                                    ELSE <<>>)]
          /\ Blank
       \/ /\ entry = "create_traffic_map"
          /\ data \in SessionSiteLists
          /\ files = [AllPresent EXCEPT !.site_statistics = File(TRUE, data)]
          /\ gmaps = None
          /\ hydrogen_stations = DataFrame(StationRows(MaxStations))
          /\ railway_data = GeoJson("key_freight_route_rail.geojson", 2)
          /\ road_data = GeoJson("key_freight_route_road.geojson", 2)
          /\ secondary_data = GeoJson("secondary_route.geojson", 2)

\* A widget of the sidebar gets the values w: the page is cleared and the
\* entry point runs again from its first line.  The objects of the run
\* before stay as they are until the run assigns them anew.
WidgetChange(w) ==
    /\ entry \in {"main", "create_traffic_map"}
    /\ pc = "done"
    /\ runs < MaxRuns
    /\ w # ui
    /\ ui' = [w EXCEPT !.button = FALSE]
    /\ pc' = "start"
    /\ notices' = <<>>
    /\ page' = <<>>
    /\ df_display' = <<>>
    /\ csv' = <<>>
    /\ UNCHANGED <<entry, runs, files, api_key, gmaps, data, hydrogen_stations,
                   railway_data, road_data, secondary_data, traffic_map,
                   map_locals, cd, calls, answers, distance_result,
                   fuel_needed, hydrogen_use, raised>>

\* The multiselect of truck classes is changed.
SelectClasses ==
    \E sel \in SessionSelections :
        WidgetChange([ui EXCEPT !.selected_classes = sel])

\* One of the five layer checkboxes is ticked or unticked.
ToggleLayer ==
    \E flag \in LayerFlags : WidgetChange(Flip(ui, flag))

SessionNext ==
    \/ Main
    \/ CallCreateTrafficMap
    \/ SelectClasses
    \/ ToggleLayer

SessionSpec == InitSession /\ [][SessionNext]_vars

\* ------------------------------------------------------------------------
\* Properties
\* ------------------------------------------------------------------------

\* create_traffic_map has been called on the current data and widget values
\* (directly, or by main after its st.stop() test).
MapCalled ==
    \/ entry = "create_traffic_map" /\ pc # "start"
    \/ entry = "main" /\ pc \notin {"start", "stopped"}

Tiers == {"red", "orange", "green"}

\* The children of the map of one kind, as positions in the map.
ChildrenOf(kind) ==
    {k \in DOMAIN traffic_map.children : traffic_map.children[k].kind = kind}

\* The traffic markers that stand for the site numbered n.
MarkersOfSite(n) ==
    {k \in ChildrenOf("traffic") : traffic_map.children[k].site = n}

EverySiteHasOneTier ==
    \A i \in 1..Len(data) :
        /\ Cardinality(MarkersOfSite(data[i].site.siteNumber)) = 1
        /\ \A k \in MarkersOfSite(data[i].site.siteNumber) :
               traffic_map.children[k].color \in Tiers

\* C1, as stated: for every non-empty list of sites and every class selection
\* create_traffic_map gives each site exactly one of the tiers red, orange,
\* green.
C1_Original == (MapCalled /\ data # <<>>) => EverySiteHasOneTier

\* C1, amended: for every non-empty list of sites and every class selection,
\* create_traffic_map called with the traffic layer on (show_traffic) gives
\* each site exactly one marker, coloured with exactly one of the tiers red,
\* orange, green.
C1_TierPartition ==
    (MapCalled /\ data # <<>> /\ ui.show_traffic) => EverySiteHasOneTier

\* Three sites under a class filter, one in each tier.
C1_Witness ==
    /\ MapCalled
    /\ Len(data) = 3
    /\ ui.show_traffic
    /\ ui.selected_classes = {"Class 3", "Class 10"}
    /\ {traffic_map.children[k].color : k \in ChildrenOf("traffic")} = Tiers

\* The count of one class in a site record.
CountOf(item, class_name) ==
    CASE class_name = "Class 3"  -> item.Class3
      [] class_name = "Class 4"  -> item.Class4
      [] class_name = "Class 5"  -> item.Class5
      [] class_name = "Class 6"  -> item.Class6
      [] class_name = "Class 7"  -> item.Class7
      [] class_name = "Class 8"  -> item.Class8
      [] class_name = "Class 9"  -> item.Class9
      [] class_name = "Class 10" -> item.Class10

\* The aggregate of a site: the sum of its counts over the selected classes,
\* over all eight when none is selected.
Aggregate(item, selection) ==
    LET S == IF selection = {} THEN ClassNames ELSE selection
    IN  SumOver(S, [c \in S |-> CountOf(item, c)])

Aggregates == [i \in 1..Len(data) |-> Aggregate(data[i], ui.selected_classes)]

\* The k-th smallest of a non-empty list of values.
OrderStatistic(values, k) ==
    CHOOSE v \in {values[i] : i \in DOMAIN values} :
        /\ Cardinality({i \in DOMAIN values : values[i] < v}) < k
        /\ k <= Cardinality({i \in DOMAIN values : values[i] <= v})

\* The p-th percentile (linear interpolation) of a non-empty list of values:
\* at the position (n - 1) * p / 100 among the sorted values, counted from 0.
Percentile(values, p) ==
    LET n     == Len(values)
        below == ((n - 1) * p) \div 100
        part  == ((n - 1) * p) % 100
        above == IF below + 1 < n THEN below + 1 ELSE below
    IN  Rat(OrderStatistic(values, below + 1) * (100 - part)
              + OrderStatistic(values, above + 1) * part, 100)

\* aggregate > threshold, for a whole aggregate and a rational threshold.
Above(aggregate, threshold) == aggregate * threshold[2] > threshold[1]

TierOf(aggregate, lowThreshold, highThreshold) ==
    CASE Above(aggregate, highThreshold) -> "red"
      [] Above(aggregate, lowThreshold) /\ ~Above(aggregate, highThreshold) -> "orange"
      [] OTHER -> "green"

\* C2: whenever create_traffic_map builds a map, its two thresholds are the
\* 33rd and the 67th percentile of the per-site aggregates (the sum of the
\* selected classes, of all eight when none is selected), and every site
\* marker carries that site's aggregate and the tier it decides: red above
\* the high threshold, orange above the low one and not above the high one,
\* green otherwise.
C2_AggregateThresholdTier ==
    (MapCalled /\ traffic_map.py = "Map") =>
        /\ map_locals.middle_third_threshold = Percentile(Aggregates, 33)
        /\ map_locals.top_third_threshold = Percentile(Aggregates, 67)
        /\ \A k \in ChildrenOf("traffic") :
             LET marker == traffic_map.children[k]
             IN  /\ marker.count = Aggregates[marker.site]
                 /\ marker.color =
                      TierOf(Aggregates[marker.site],
                             Percentile(Aggregates, 33),
                             Percentile(Aggregates, 67))

\* Two sites under a class filter whose aggregates differ from their totals,
\* one of them exactly on a threshold's side of a tie.
C2_Witness ==
    /\ MapCalled
    /\ traffic_map.py = "Map"
    /\ ui.selected_classes = {"Class 4", "Class 6", "Class 10"}
    /\ ui.show_traffic
    /\ Len(data) = 3
    /\ Aggregates = <<20, 85, 85>>
    /\ traffic_map.children[1].color = "green"
    /\ traffic_map.children[2].color = "orange"

\* |x - target| < 1/20
Near(x, target) ==
    /\ RLess(RSub(x, target), Rat(1, 20))
    /\ RLess(Rat(-1, 20), RSub(x, target))

\* The colours of the site markers, in the order of the sites.
MarkerColors ==
    [i \in 1..Cardinality(ChildrenOf("traffic")) |->
        traffic_map.children[i].color]

\* Three sites with aggregates 10, 50, 90 and no class filter.
Scenario_10_50_90 ==
    /\ MapCalled
    /\ ui.selected_classes = {}
    /\ Len(data) = 3
    /\ Aggregates = <<10, 50, 90>>

\* C5, as stated: for three sites with aggregates 10, 50, 90 and no class
\* filter the thresholds are about (23.6, 70.4) and the sites are low, mid,
\* high (read here of a map that shows the traffic layer).
C5_Original ==
    Scenario_10_50_90 =>
        /\ Near(map_locals.middle_third_threshold, Rat(236, 10))
        /\ Near(map_locals.top_third_threshold, Rat(704, 10))
        /\ ui.show_traffic => MarkerColors = <<"green", "orange", "red">>

\* C5, amended: for three sites with aggregates 10, 50, 90 and no class
\* filter the thresholds (linear-interpolation quantiles at 0.33 and 0.67) are
\* 36.4 and 63.6, and with the traffic layer on the three sites are low, mid,
\* high in this order.
C5_Scenario ==
    Scenario_10_50_90 =>
        /\ map_locals.middle_third_threshold = Rat(364, 10)
        /\ map_locals.top_third_threshold = Rat(636, 10)
        /\ Near(map_locals.middle_third_threshold, Rat(364, 10))
        /\ Near(map_locals.top_third_threshold, Rat(636, 10))
        /\ ui.show_traffic => MarkerColors = <<"green", "orange", "red">>

C5_Witness == Scenario_10_50_90 /\ ui.show_traffic /\ traffic_map.py = "Map"

\* C6: for every list of sites and every class selection the high threshold
\* create_traffic_map computes (0 for no site) is not below the low one.
C6_ThresholdOrder ==
    MapCalled =>
        /\ ~RLess(TopThirdThreshold(data, ui.selected_classes),
                  MiddleThirdThreshold(data, ui.selected_classes))
        /\ traffic_map.py = "Map" =>
             /\ map_locals.top_third_threshold =
                  TopThirdThreshold(data, ui.selected_classes)
             /\ map_locals.middle_third_threshold =
                  MiddleThirdThreshold(data, ui.selected_classes)
             /\ ~RLess(map_locals.top_third_threshold,
                       map_locals.middle_third_threshold)

\* A class filter under which the sites are not in the order of their
\* aggregates, and the two thresholds differ.
C6_Witness ==
    /\ MapCalled
    /\ traffic_map.py = "Map"
    /\ ui.selected_classes = {"Class 3"}
    /\ Aggregates = <<10, 0, 5>>
    /\ RLess(map_locals.middle_third_threshold, map_locals.top_third_threshold)

\* What create_traffic_map does at the two edges, the tier of the single site
\* left aside.
EdgeCases ==
    /\ data = <<>> =>
         /\ traffic_map = NoMap
         /\ raised = None
         /\ TopThirdThreshold(data, ui.selected_classes) = R(0)
         /\ MiddleThirdThreshold(data, ui.selected_classes) = R(0)
    /\ Len(data) = 1 =>
         /\ raised = None
         /\ traffic_map.py = "Map"
         /\ map_locals.top_third_threshold = R(Aggregates[1])
         /\ map_locals.middle_third_threshold = R(Aggregates[1])

\* C7, as stated: with zero sites create_traffic_map does not throw and
\* returns None, both thresholds counting as 0; with exactly one site both
\* thresholds equal its aggregate and the site is assigned the low tier.
C7_Original ==
    MapCalled =>
        /\ EdgeCases
        /\ Len(data) = 1 => MarkerColors = <<"green">>

\* C7, amended: with zero sites create_traffic_map does not throw and returns
\* None (its thresholds for an empty list of counts are 0); with exactly one
\* site both thresholds equal its aggregate and, when the traffic layer is on,
\* the site is assigned the low tier.
C7_Edges ==
    MapCalled =>
        /\ EdgeCases
        /\ (Len(data) = 1 /\ ui.show_traffic) => MarkerColors = <<"green">>

C7_Witness ==
    /\ MapCalled
    /\ Len(data) = 1
    /\ ui.show_traffic
    /\ Aggregates[1] > 0
    /\ MarkerColors = <<"green">>

\* The GeoJson layers of the map drawn from one route file in one colour.
LayersOf(route_data, color) ==
    {k \in ChildrenOf("GeoJson") :
        /\ traffic_map.children[k].color = color
        /\ traffic_map.children[k].site = route_data.src}

\* C9: in a map create_traffic_map has built, the site markers are there
\* exactly when show_traffic is on (one per site), the station markers exactly
\* when show_hydrogen is on and the stations are loaded and not empty (one per
\* station), and each of the three route layers exactly when its own flag is
\* on and its own data is loaded and not empty; the map holds nothing else.
C9_OverlaysIndependent ==
    (MapCalled /\ traffic_map.py = "Map") =>
        /\ Cardinality(ChildrenOf("traffic")) =
             (IF ui.show_traffic THEN Len(data) ELSE 0)
        /\ Cardinality(ChildrenOf("hydrogen")) =
             (IF ui.show_hydrogen /\ hydrogen_stations.py # "None"
              THEN Len(hydrogen_stations.rows) ELSE 0)
        /\ Cardinality(LayersOf(railway_data, "red")) =
             (IF ui.show_railway /\ railway_data.py = "dict" /\ railway_data.len > 0
              THEN 1 ELSE 0)
        /\ Cardinality(LayersOf(road_data, "blue")) =
             (IF ui.show_roads /\ road_data.py = "dict" /\ road_data.len > 0
              THEN 1 ELSE 0)
        /\ Cardinality(LayersOf(secondary_data, "green")) =
             (IF ui.show_secondary /\ secondary_data.py = "dict"
                                   /\ secondary_data.len > 0
              THEN 1 ELSE 0)
        /\ Len(traffic_map.children) =
             Cardinality(ChildrenOf("traffic"))
               + Cardinality(ChildrenOf("hydrogen"))
               + Cardinality(LayersOf(railway_data, "red"))
               + Cardinality(LayersOf(road_data, "blue"))
               + Cardinality(LayersOf(secondary_data, "green"))

\* A run of main without the hydrogen-station file: no station marker, every
\* other layer there.
C9_Witness ==
    /\ entry = "main"
    /\ pc = "done"
    /\ ~files.hydrogen.exists
    /\ ui.show_hydrogen
    /\ ChildrenOf("hydrogen") = {}
    /\ Cardinality(ChildrenOf("traffic")) = 3
    /\ Cardinality(ChildrenOf("GeoJson")) = 3

\* calculate_distance has returned to its caller.
CalcReturned == cd.pc = "returned"

HasNotice(level, text) ==
    \E i \in DOMAIN notices : notices[i] = Notice(level, text)

CountNotices(level, text) ==
    Cardinality({i \in DOMAIN notices : notices[i] = Notice(level, text)})

InPage(section) == \E i \in DOMAIN page : page[i] = section

\* C3: calculate_distance returns a result (distance text, duration text,
\* metres) exactly when it was given a client and a non-empty destination,
\* the geocoder answered with a result and the distance-matrix element was
\* 'OK'; in every other case it returns None.  When it returns None to main,
\* main shows the failed-to-calculate error; and a press of the button that
\* yields no result shows no fuel and no hydrogen value.
C3_Unavailable ==
    /\ CalcReturned =>
         /\ distance_result.py = "dict" <=>
              /\ cd.gmaps # None
              /\ cd.destination_address # ""
              /\ answers = <<"found", "OK">>
         /\ distance_result.py = "dict" =>
              /\ distance_result.distance_value \in DistanceValues
              /\ distance_result.distance[1] = distance_result.distance_value
              /\ distance_result.duration # <<>>
         /\ distance_result.py # "dict" => distance_result = NoResult
    /\ (entry = "main" /\ pc = "done" /\ CalcReturned
          /\ distance_result.py = "None") =>
         /\ notices[Len(notices)] =
              Notice("error", "Failed to calculate distance.")
         /\ ~HasNotice("success", "Distance calculated successfully!")
    /\ (entry = "main" /\ pc = "done" /\ distance_result.py = "None") =>
         /\ fuel_needed = Unbound
         /\ hydrogen_use = Unbound
         /\ ~InPage("result_metrics")

\* A press in main whose destination the geocoder does not resolve.
C3_Witness ==
    /\ entry = "main"
    /\ pc = "done"
    /\ ui.button
    /\ answers = <<"empty">>
    /\ distance_result = NoResult
    /\ HasNotice("error", "Failed to calculate distance.")
    /\ fuel_needed = Unbound

\* The fixed rates, litres per 100 km.
PerClassConsumptionRate ==
    [c \in TruckClassOptions |->
        IF c = "Class 4 (Medium Rigid)" THEN Rat(1245859, 100000)
        ELSE IF c = "Class 5 (Heavy Rigid)" THEN Rat(2322869, 100000)
        ELSE IF c = "Class 7 (Arctic 4 Axle)" THEN Rat(2724712, 100000)
        ELSE IF c = "Class 8 (Artic 5 Axle)" THEN Rat(3044964, 100000)
        ELSE IF c = "Class 10 (B-Double)" THEN Rat(4148179, 100000)
        ELSE Rat(3814329, 100000)]

\* C4: for every distance returned and every selectable truck class the fuel
\* estimate main shows is (metres / 1000 / 100) times the class's fixed rate
\* and the hydrogen estimate is the fuel estimate times 45 / 120; 100,000 m
\* with "Class 8 (Artic 5 Axle)" gives 30.44964 L and about 11.42 kg.
C4_FuelHydrogen ==
    (entry = "main" /\ pc = "done" /\ distance_result.py = "dict") =>
        /\ ui.truck_class \in TruckClassOptions
        /\ fuel_needed =
             RMul(Rat(distance_result.distance_value, 100000),
                  PerClassConsumptionRate[ui.truck_class])
        /\ hydrogen_use = RMul(fuel_needed, Rat(45, 120))
        /\ InPage("result_metrics")
        /\ (distance_result.distance_value = 100000
              /\ ui.truck_class = "Class 8 (Artic 5 Axle)") =>
             /\ fuel_needed = Rat(3044964, 100000)
             /\ hydrogen_use = Rat(11418615, 1000000)
             /\ RLess(RSub(hydrogen_use, Rat(1142, 100)), Rat(1, 200))
             /\ RLess(Rat(-1, 200), RSub(hydrogen_use, Rat(1142, 100)))

C4_Witness ==
    /\ entry = "main"
    /\ pc = "done"
    /\ distance_result.py = "dict"
    /\ distance_result.distance_value = 100000
    /\ ui.truck_class = "Class 8 (Artic 5 Axle)"
    /\ fuel_needed = Rat(3044964, 100000)

\* C8: an invocation of calculate_distance makes at most two outbound calls,
\* the geocoding call first and the distance-matrix call after it, each at
\* most once and each answered once; a result is returned only after both.
\* After a failure (an exception, no geocode result, an element that is not
\* 'OK') no further call is made: an exception is shown once by
\* calculate_distance, and main shows the failure once.
C8_TwoCallsNoRetry ==
    /\ Len(calls) <= 2
    /\ Len(answers) <= Len(calls)
    /\ Len(calls) >= 1 =>
         /\ cd.pc # "idle"
         /\ calls[1] = Call("geocode", <<cd.destination_address>>)
    /\ Len(calls) = 2 =>
         /\ calls[2] = Call("distance_matrix", <<cd.origin, cd.dest>>)
         /\ answers # <<>>
         /\ answers[1] = "found"
    /\ cd.pc = "geocode" => (Len(calls) = 1 /\ answers = <<>>)
    /\ cd.pc = "distance_matrix" => (Len(calls) = 2 /\ answers = <<"found">>)
    /\ CalcReturned =>
         /\ Len(answers) = Len(calls)
         /\ distance_result.py = "dict" => Len(calls) = 2
         /\ Len(calls) = 0 <=> CannotCalculate(cd.gmaps, cd.destination_address)
         /\ Len(calls) = 1 => answers[1] \in {"raise", "empty"}
         /\ CountNotices("error", "Error calculating distance") =
              (IF \E i \in DOMAIN answers : answers[i] = "raise" THEN 1 ELSE 0)
    /\ CountNotices("error", "Failed to calculate distance.") =
         (IF entry = "main" /\ pc = "done" /\ CalcReturned
               /\ distance_result.py = "None"
          THEN 1 ELSE 0)

\* The distance-matrix call raised after the geocoder had answered.
C8_Witness ==
    /\ CalcReturned
    /\ answers = <<"found", "raise">>
    /\ Len(calls) = 2
    /\ distance_result = NoResult
    /\ CountNotices("error", "Error calculating distance") = 1

\* A render cycle of main has ended: at its last line, at st.stop(), or by an
\* exception.
MainEnded == entry = "main" /\ pc \in {"done", "stopped", "raised"}

\* Every fault of the cycle has its notice.
EveryFaultNoticed ==
    /\ ~files.site_statistics.exists =>
         HasNotice("error", "site_statistics.json not found")
    /\ ~files.hydrogen.exists =>
         HasNotice("warning", "hydrogen_refuelling_stations.csv not found")
    /\ ~files.rail.exists =>
         HasNotice("warning", "key_freight_route_rail.geojson not found")
    /\ ~files.road.exists =>
         HasNotice("warning", "key_freight_route_road.geojson not found")
    /\ ~files.secondary.exists =>
         HasNotice("warning", "secondary_route.geojson not found")
    /\ api_key = None =>
         /\ HasNotice("error", "Failed to initialize Google Maps API")
         /\ HasNotice("warning", "Google Maps API not available")
    /\ answers = <<"empty">> =>
         HasNotice("error", "Failed to calculate distance.")
    /\ (Len(answers) = 2 /\ answers[2] \in {"ZERO_RESULTS", "NOT_FOUND"}) =>
         HasNotice("error", "Failed to calculate distance.")

LayersInColor(color) ==
    {k \in ChildrenOf("GeoJson") : traffic_map.children[k].color = color}

\* Each station or route layer is in the map exactly when its own switch is on
\* and its own file is there (and holds something).
LayersByOwnFile ==
    /\ Cardinality(ChildrenOf("hydrogen")) =
         (IF ui.show_hydrogen /\ files.hydrogen.exists
          THEN Len(files.hydrogen.content) ELSE 0)
    /\ Cardinality(LayersInColor("red")) =
         (IF ui.show_railway /\ files.rail.exists /\ files.rail.content > 0
          THEN 1 ELSE 0)
    /\ Cardinality(LayersInColor("blue")) =
         (IF ui.show_roads /\ files.road.exists /\ files.road.content > 0
          THEN 1 ELSE 0)
    /\ Cardinality(LayersInColor("green")) =
         (IF ui.show_secondary /\ files.secondary.exists
                               /\ files.secondary.content > 0
          THEN 1 ELSE 0)

\* C10, as stated: whatever files are absent, whether or not the client can
\* be built, the destination resolves and the route is OK, a render cycle of
\* main ends with a notice for each fault and no unhandled exception, and a
\* missing file disables only its own layer or feature: the rest of the page
\* (the other layers, the estimator, the chart) is still rendered.
C10_Original ==
    MainEnded =>
        /\ raised = None
        /\ EveryFaultNoticed
        /\ LayersByOwnFile
        /\ InPage("fuel_inputs")
        /\ InPage("chart")

\* C10, amended: whatever files are absent, whether or not the client can be
\* built, the destination resolves and the route is OK, a render cycle of main
\* ends with a notice for each fault and no unhandled exception.  A missing
\* hydrogen-station or route file disables only its own layer and the rest of
\* the page is still rendered; a missing site-statistics file (or one without
\* records) ends the cycle at st.stop(), after the loaders' notices and before
\* the map, the estimator, the chart and the table.
C10_FaultsNoticed ==
    MainEnded =>
        /\ raised = None
        /\ pc # "raised"
        /\ EveryFaultNoticed
        /\ IF files.site_statistics.exists /\ files.site_statistics.content # <<>>
           THEN /\ pc = "done"
                /\ data = files.site_statistics.content
                /\ traffic_map.py = "Map"
                /\ Cardinality(ChildrenOf("traffic")) =
                     (IF ui.show_traffic THEN Len(data) ELSE 0)
                /\ LayersByOwnFile
                /\ InPage("title") /\ InPage("map") /\ InPage("fuel_inputs")
                /\ InPage("chart") /\ InPage("table") /\ InPage("download")
                /\ Len(df_display) = Len(data)
           ELSE /\ pc = "stopped"
                /\ page = <<"title">>
                /\ traffic_map = NoMap
                /\ calls = <<>>
                /\ df_display = <<>>

\* A cycle without the station file and the three route files, whose press of
\* the button finds no route.
C10_Witness ==
    /\ entry = "main"
    /\ pc = "done"
    /\ ~files.hydrogen.exists
    /\ ~files.rail.exists
    /\ ~files.road.exists
    /\ ~files.secondary.exists
    /\ ui.show_railway
    /\ answers = <<"found", "ZERO_RESULTS">>
    /\ Len(notices) = 5
    /\ InPage("table")

\* ------------------------------------------------------------------------
\* C11
\* ------------------------------------------------------------------------

\* The site records as the file holds them.
OriginalRecords == files.site_statistics.content

\* The site markers of a map as pairs <<site, colour>>.
TiersOfMap(m) ==
    {<<m.children[k].site, m.children[k].color>> :
       k \in {j \in DOMAIN m.children : m.children[j].kind = "traffic"}}

\* create_traffic_map on the records of the file and the widgets as they are
\* now, without any overlay data.
FreshComputation ==
    CreateTrafficMap(OriginalRecords, NoDataFrame, NoGeoJson, NoGeoJson,
                     NoGeoJson, ui.show_traffic, FALSE, FALSE, FALSE, FALSE,
                     ui.selected_classes)

\* The latest run has ended and has built a map.
Recomputed ==
    /\ entry \in {"main", "create_traffic_map"}
    /\ pc = "done"
    /\ runs >= 1

RECURSIVE CsvScan(_, _, _, _, _)
CsvScan(text, i, field, row, quoted) ==
    IF i > Len(text)
    THEN [row |-> Append(row, field), next |-> i]
    ELSE IF quoted
    THEN IF text[i] = "\"" /\ i < Len(text) /\ text[i + 1] = "\""
         THEN CsvScan(text, i + 2, Append(field, "\""), row, TRUE)
         ELSE IF text[i] = "\""
         THEN CsvScan(text, i + 1, field, row, FALSE)
         ELSE CsvScan(text, i + 1, Append(field, text[i]), row, TRUE)
    ELSE IF text[i] = ","
    THEN CsvScan(text, i + 1, <<>>, Append(row, field), FALSE)
    ELSE IF text[i] = "\n"
    THEN [row |-> Append(row, field), next |-> i + 1]
    ELSE IF text[i] = "\"" /\ field = <<>>
    THEN CsvScan(text, i + 1, field, row, TRUE)
    ELSE CsvScan(text, i + 1, Append(field, text[i]), row, FALSE)

\* The rows of the lines from position i on.
RECURSIVE CsvLinesFrom(_, _)
CsvLinesFrom(text, i) ==
    IF i > Len(text) THEN <<>>
    ELSE LET line == CsvScan(text, i, <<>>, <<>>, FALSE)
         IN  <<line.row>> \o CsvLinesFrom(text, line.next)

ReadCsv(text) == CsvLinesFrom(text, 1)

\* The number a field of decimal digits stands for; -1 when it is no number.
RECURSIVE DigitsValue(_)
DigitsValue(field) ==
    IF field = <<>> THEN 0
    ELSE 10 * DigitsValue(SubSeq(field, 1, Len(field) - 1))
         + (CHOOSE d \in 0..9 : DecimalDigits[d + 1] = field[Len(field)])

ParseInt(field) ==
    IF field # <<>>
         /\ \A i \in DOMAIN field :
              \E d \in 0..9 : DecimalDigits[d + 1] = field[i]
    THEN DigitsValue(field)
    ELSE -1

\* The field of a parsed row under the column named in the header.
FieldOf(table, k, column) ==
    IF \E c \in DOMAIN table[1] : table[1][c] = <<column>>
    THEN table[k][CHOOSE c \in DOMAIN table[1] : table[1][c] = <<column>>]
    ELSE <<>>

\* A run of main has ended with the download button on the page.
Exported == entry = "main" /\ pc = "done" /\ InPage("download")

\* C12: the exported text, read back, has one row per site of the page (the
\* sites of filtered_data, that is every loaded site), with as many fields as
\* the header; in the i-th row the site number is that of the i-th site, the
\* total-vehicles field is the sum of its eight class counts, and the medium
\* (3-5) and heavy (6+) fields are the sums of their classes and add up to
\* the total.
C12_ExportedRows ==
    Exported =>
        LET table == ReadCsv(csv)
        IN  /\ Len(table) = Len(data) + 1
            /\ \A i \in 1..Len(data) :
                 LET total  == ParseInt(FieldOf(table, i + 1, "Total Vehicles (Class 3+)"))
                     medium == ParseInt(FieldOf(table, i + 1, "Medium Trucks (3-5)"))
                     heavy  == ParseInt(FieldOf(table, i + 1, "Heavy Trucks (6+)"))
                 IN  /\ Len(table[i + 1]) = Len(table[1])
                     /\ ParseInt(FieldOf(table, i + 1, "Site Number"))
                          = data[i].site.siteNumber
                     /\ FieldOf(table, i + 1, "Location")
                          = data[i].site.locationDesc
                     /\ total = Aggregate(data[i], ClassNames)
                     /\ medium = Aggregate(data[i], {"Class 3", "Class 4", "Class 5"})
                     /\ heavy = Aggregate(data[i], ClassNames
                                  \ {"Class 3", "Class 4", "Class 5"})
                     /\ medium + heavy = total

\* An export of three sites, with a location that had to be quoted and a
\* site whose traffic is both medium and heavy.
C12_Witness ==
    /\ Exported
    /\ Len(data) = 3
    /\ \E i \in DOMAIN csv : csv[i] = "\""
    /\ \E i \in DOMAIN df_display :
         df_display[i].MediumTrucks > 0 /\ df_display[i].HeavyTrucks > 0

\* ------------------------------------------------------------------------
\* C13
\* ------------------------------------------------------------------------

\* The notices of the four outcomes of the button.
EnterDestination == Notice("warning", "Please enter a destination address.")
ApiUnavailable == Notice("error", "Google Maps API is not available")
Calculated == Notice("success", "Distance calculated successfully!")
FailedToCalculate == Notice("error", "Failed to calculate distance.")

Outcomes == {EnterDestination, ApiUnavailable, Calculated, FailedToCalculate}

\* A run of main in which the button was pressed has ended.
Pressed == entry = "main" /\ pc = "done" /\ ui.button

\* The outcome the priority of the claim gives.
OutcomeByPriority ==
    IF ui.destination = "" THEN EnterDestination
    ELSE IF gmaps = None THEN ApiUnavailable
    ELSE IF distance_result.py = "dict" THEN Calculated
    ELSE FailedToCalculate

\* C13: a press of "Calculate Distance" shows exactly one of the four outcome
\* notices, once: the warning to enter a destination when the destination is
\* empty (with or without a client); otherwise the API-unavailable error when
\* there is no client; otherwise the success notice, with the fuel and the
\* hydrogen values, when calculate_distance returned a result; otherwise the
\* failed-to-calculate error.  In the first two outcomes calculate_distance
\* is not entered and no outbound call is made.
C13_OneOutcomeByPriority ==
    Pressed =>
        /\ \A o \in Outcomes :
             CountNotices(o.level, o.text)
               = (IF o = OutcomeByPriority THEN 1 ELSE 0)
        /\ OutcomeByPriority \in {EnterDestination, ApiUnavailable} =>
             /\ calls = <<>>
             /\ answers = <<>>
             /\ cd = NoCall
        /\ OutcomeByPriority \in {Calculated, FailedToCalculate} =>
             /\ CalcReturned
             /\ calls # <<>>
        /\ OutcomeByPriority = Calculated <=>
             /\ fuel_needed # Unbound
             /\ hydrogen_use # Unbound
             /\ InPage("result_metrics")

\* A press with no destination and no client: the warning, not the error.
C13_Witness ==
    /\ Pressed
    /\ ui.destination = ""
    /\ gmaps = None
    /\ HasNotice("warning", "Please enter a destination address.")
    /\ ~HasNotice("error", "Google Maps API is not available")
    /\ calls = <<>>

====
